---- MODULE Spec2Model ----
(***************************************************************************)
(* A model of two pieces of pytensortools:                                 *)
(*                                                                         *)
(*   - evaluation/run_evaluator.py, class WorstDegeneracy: the evaluator   *)
(*     object (modes, return_permutation), the checkpoint it reads and     *)
(*     the body of _evaluate, one action per step of the method            *)
(*     (specification Spec);                                               *)
(*   - visualization/base_visualiser.py, classes                           *)
(*     SingleComponentLinePlotter and FactorScatterPlotter: the figsize    *)
(*     attribute across calls of _visualise (specification SpecVis).       *)
(*                                                                         *)
(* A factor matrix is the sequence of its columns; a column is a vector    *)
(* (a sequence of entries).  Python's indices are 0-based and kept so in   *)
(* every value the program sees (p1, p2, mode indices); TLA+ sequences     *)
(* are 1-based, so column p of fm is fm[p + 1].                            *)
(***************************************************************************)
EXTENDS Integers, Sequences, FiniteSets, TLC

VARIABLES
    \* ---- WorstDegeneracy ----
    h5,                 \* the checkpoint: the factor matrices stored on disk
    self_modes,         \* self.modes: [none |-> TRUE] or a sequence of indices
    return_permutation, \* self.return_permutation
    pc,                 \* position in _evaluate: "idle", "loop", "done"
    factor_matrices,    \* decomposition.factor_matrices of the running call
    modes,              \* the local `modes`: bound or not, and its value
    R,                  \* the local R
    it,                 \* position of the for loop in permutations(range(R), 2)
    min_score,          \* the local min_score
    worst,              \* <<worst_p1, worst_p2>>, or <<>> while both are unbound
    oracle_calls,       \* the calls of metrics._factor_match_score, in order
    outcome,            \* what the call returned or raised
    prev_outcome,       \* what the previous call on the same inputs did
    \* ---- plotters ----
    vis_class,          \* which plotter class the instance is
    figsize,            \* self.figsize, <<width, height>>
    ctor_figsize,       \* self.figsize as the constructor left it
    vis_calls           \* one record per call of _visualise, in order

evalVars == <<h5, self_modes, return_permutation, pc, factor_matrices, modes, R,
              it, min_score, worst, oracle_calls, outcome, prev_outcome>>
visVars == <<vis_class, figsize, ctor_figsize, vis_calls>>
vars == <<evalVars, visVars>>

(***************************************************************************)
(* Bounds of the model.                                                    *)
(***************************************************************************)
MaxRank == 3      \* columns of a factor matrix: 1..MaxRank
MaxModes == 2     \* factor matrices of a decomposition: 1..MaxModes
MaxCalls == 3     \* calls of _visualise on one plotter instance

\* The entries of a factor matrix.  Every mode has size 1 (one row), so a
\* column is a vector of one nonzero entry.
Entries == {-1, 1}
Columns == {<<e>> : e \in Entries}

SeqsUpTo(S, n) == UNION {[1..k -> S] : k \in 1..n}

FactorMatrices == SeqsUpTo(Columns, MaxRank)
Decompositions == SeqsUpTo(FactorMatrices, MaxModes)

NumCols(fm) == Len(fm)

Abs(x) == IF x < 0 THEN -x ELSE x

RECURSIVE Product(_)
Product(s) == IF s = <<>> THEN 1 ELSE Head(s) * Product(Tail(s))

(***************************************************************************)
(* The factor-match oracle, pytensor.metrics._factor_match_score with      *)
(* nonnegative=False and weight_penalty=False: the product, across the     *)
(* modes, of the cosine similarity of the corresponding vectors.  With     *)
(* one-entry vectors the inner product is u[1]*v[1] and the norm Abs(u[1]).*)
(***************************************************************************)
Cosine(u, v) == (u[1] * v[1]) \div (Abs(u[1]) * Abs(v[1]))

FactorMatchScore(factors_p1, factors_p2) ==
    Product([m \in 1..Len(factors_p1) |-> Cosine(factors_p1[m], factors_p2[m])])

(***************************************************************************)
(* WorstDegeneracy                                                         *)
(***************************************************************************)
None == [none |-> TRUE, val |-> <<>>]
Some(v) == [none |-> FALSE, val |-> v]

\* np.inf and a finite score, as values of min_score
Inf == [inf |-> TRUE, v |-> 0]
Fin(x) == [inf |-> FALSE, v |-> x]

UnboundModes == [bound |-> FALSE, val |-> {}]
BoundModes(S) == [bound |-> TRUE, val |-> S]

NoOutcome == [kind |-> "none", error |-> "", score |-> Inf, pair |-> <<>>]
Raise(e) == [kind |-> "raise", error |-> e, score |-> Inf, pair |-> <<>>]
Return(s, p) == [kind |-> "return", error |-> "", score |-> s, pair |-> p]

\* range(n)
Range(n) == 0..(n - 1)

\* The values of the `modes` argument of __init__ that the model draws: the
\* default, every single index up to one past the last mode, and the indices
\* 0..k-1 in every order.
Injective(s) == \A i, j \in 1..Len(s) : i # j => s[i] # s[j]
ModeArguments ==
    {None}
    \cup {Some(<<i>>) : i \in 0..MaxModes}
    \cup {Some(s) : s \in {t \in SeqsUpTo(Range(MaxModes), MaxModes) :
                              Injective(t) /\ \A i \in 1..Len(t) : t[i] < Len(t)}}

\* list(itertools.permutations(range(n), r=2)): the ordered pairs of distinct
\* indices, p1 ascending, then p2 ascending.
Permutations2(n) ==
    [i \in 1..(n * (n - 1)) |->
        LET p1 == (i - 1) \div (n - 1)
            k == (i - 1) % (n - 1)
        IN <<p1, IF k < p1 THEN k ELSE k + 1>>]

\* [mode for mode, fm in enumerate(fms) if mode in S], in enumerate's order
SelectedModes(fms, S) ==
    SelectSeq([i \in 1..Len(fms) |-> i - 1], LAMBDA mode : mode \in S)

\* fm[:, p] raises IndexError for some selected mode
ColumnIndexError(fms, S, p) ==
    \E mode \in S \cap Range(Len(fms)) : p >= NumCols(fms[mode + 1])

\* [fm[:, p] for mode, fm in enumerate(fms) if mode in S]
ColumnsOf(fms, S, p) ==
    LET sel == SelectedModes(fms, S)
    IN [i \in 1..Len(sel) |-> fms[sel[i] + 1][p + 1]]

\* score < min_score (line 82)
ScoreLess_le(score, m) == m.inf \/ score <= m.v
ScoreLess_gt(score, m) == m.inf \/ score > m.v
ScoreLess(score, m) == m.inf \/ score < m.v

\* WorstDegeneracy.__init__ and the checkpoint the evaluator is run on
InitEval ==
    /\ h5 \in Decompositions
    /\ self_modes \in ModeArguments
    /\ return_permutation \in BOOLEAN
    /\ pc = "idle"
    /\ factor_matrices = <<>>
    /\ modes = UnboundModes
    /\ R = 0
    /\ it = 0
    /\ min_score = Inf
    /\ worst = <<>>
    /\ oracle_calls = <<>>
    /\ outcome = NoOutcome
    /\ prev_outcome = NoOutcome

\* _evaluate, lines 66-72: up to the for statement
Evaluate_Enter_mut ==
    /\ pc = "idle"
    /\ factor_matrices' = h5
    /\ modes' = IF self_modes.none THEN BoundModes(Range(Len(h5))) ELSE UnboundModes
    /\ self_modes' = IF self_modes.none
                     THEN Some([i \in 1..Len(h5) |-> i - 1]) ELSE self_modes
    /\ R' = NumCols(h5[1])
    /\ min_score' = Inf
    /\ it' = 1
    /\ pc' = "loop"
    /\ UNCHANGED <<h5, return_permutation, worst, oracle_calls, outcome,
                   prev_outcome, visVars>>

Evaluate_Enter ==
    /\ pc = "idle"
    /\ factor_matrices' = h5
    /\ modes' = IF self_modes.none THEN BoundModes(Range(Len(h5))) ELSE UnboundModes
    /\ R' = NumCols(h5[1])
    /\ min_score' = Inf
    /\ it' = 1
    /\ pc' = "loop"
    /\ UNCHANGED <<h5, self_modes, return_permutation, worst, oracle_calls,
                   outcome, prev_outcome, visVars>>

\* _evaluate, lines 74-85: one iteration of the for loop
Evaluate_Iterate ==
    /\ pc = "loop"
    /\ it <= Len(Permutations2(R))
    /\ LET p1 == Permutations2(R)[it][1]
           p2 == Permutations2(R)[it][2]
       IN IF ~modes.bound
          THEN \* `mode in modes` reads a local that was never assigned
               /\ outcome' = Raise("NameError")
               /\ pc' = "done"
               /\ UNCHANGED <<it, min_score, worst, oracle_calls>>
          ELSE IF \/ ColumnIndexError(factor_matrices, modes.val, p1)
                  \/ ColumnIndexError(factor_matrices, modes.val, p2)
          THEN /\ outcome' = Raise("IndexError")
               /\ pc' = "done"
               /\ UNCHANGED <<it, min_score, worst, oracle_calls>>
          ELSE LET factors_p1 == ColumnsOf(factor_matrices, modes.val, p1)
                   factors_p2 == ColumnsOf(factor_matrices, modes.val, p2)
                   score == FactorMatchScore(factors_p1, factors_p2)
               IN /\ oracle_calls' = Append(oracle_calls,
                          [p1 |-> p1, p2 |-> p2,
                           factors_p1 |-> factors_p1, factors_p2 |-> factors_p2])
                  /\ IF ScoreLess(score, min_score)
                     THEN min_score' = Fin(score) /\ worst' = <<p1, p2>>
                     ELSE UNCHANGED <<min_score, worst>>
                  /\ it' = it + 1
                  /\ UNCHANGED <<pc, outcome>>
    /\ UNCHANGED <<h5, self_modes, return_permutation, factor_matrices, modes, R,
                   prev_outcome, visVars>>

\* _evaluate, lines 87-90: after the loop
Evaluate_Return ==
    /\ pc = "loop"
    /\ it > Len(Permutations2(R))
    /\ outcome' = IF return_permutation
                  THEN IF worst = <<>>
                       THEN Raise("UnboundLocalError")
                       ELSE Return(min_score, worst)
                  ELSE Return(min_score, <<>>)
    /\ pc' = "done"
    /\ UNCHANGED <<h5, self_modes, return_permutation, factor_matrices, modes, R,
                   it, min_score, worst, oracle_calls, prev_outcome, visVars>>

\* BaseSingleRunEvaluator.__call__ hands the outcome to its caller, the
\* locals of _evaluate are gone, and the evaluator can be called again.
Call_Return ==
    /\ pc = "done"
    /\ prev_outcome' = outcome
    /\ outcome' = NoOutcome
    /\ pc' = "idle"
    /\ factor_matrices' = <<>>
    /\ modes' = UnboundModes
    /\ R' = 0
    /\ it' = 0
    /\ min_score' = Inf
    /\ worst' = <<>>
    /\ oracle_calls' = <<>>
    /\ UNCHANGED <<h5, self_modes, return_permutation, visVars>>

(***************************************************************************)
(* SingleComponentLinePlotter and FactorScatterPlotter                     *)
(*                                                                         *)
(* Lengths are in thousandths of an inch, so that BaseVisualiser.figsize   *)
(* (5.91, 3.8) and the constructors' factor 0.7 stay integers.             *)
(***************************************************************************)
\* BaseVisualiser.figsize, the class attribute
DefaultFigsize == <<5910, 3800>>

\* The values of the `figsize` argument of __init__ that the model draws
FigsizeArguments == {None, Some(<<10000, 4000>>), Some(<<3000, 3000>>)}

PlotterClasses == {"SingleComponentLinePlotter", "FactorScatterPlotter"}

\* BaseVisualiser.__init__: the class attribute unless figsize is given
BaseFigsize(arg) == IF arg.none THEN DefaultFigsize ELSE arg.val

\* (self.figsize[0]*summary['model_rank']*0.7, self.figsize[1])
ConstructorFigsize(fs, model_rank) == <<(fs[1] * model_rank * 7) \div 10, fs[2]>>

\* (self.figsize[0]*rank, self.figsize[1])
RankScaledFigsize_height(fs, rank) == <<fs[1], fs[2] * rank>>
RankScaledFigsize(fs, rank) == <<fs[1] * rank, fs[2]>>

\* The state after SingleComponentLinePlotter.__init__ or
\* FactorScatterPlotter.__init__
InitVis ==
    /\ vis_class \in PlotterClasses
    /\ \E arg \in FigsizeArguments, model_rank \in 1..MaxRank :
          figsize = ConstructorFigsize(BaseFigsize(arg), model_rank)
    /\ ctor_figsize = figsize
    /\ vis_calls = <<>>

\* SingleComponentLinePlotter._visualise on a checkpoint whose factor matrix
\* of mode self.mode has `rank` columns
SingleComponentLinePlotter_visualise ==
    /\ vis_class = "SingleComponentLinePlotter"
    /\ Len(vis_calls) < MaxCalls
    /\ \E rank \in 1..MaxRank :
          /\ vis_calls' = Append(vis_calls,
                 [drawn |-> figsize, rank |-> rank, raised |-> FALSE])
          /\ figsize' = RankScaledFigsize(figsize, rank)
    /\ UNCHANGED <<vis_class, ctor_figsize, evalVars>>

\* FactorScatterPlotter._visualise; with a single class among the labels,
\* different_classes[1] raises IndexError, after self.figsize was assigned
FactorScatterPlotter_visualise ==
    /\ vis_class = "FactorScatterPlotter"
    /\ Len(vis_calls) < MaxCalls
    /\ \E rank \in 1..MaxRank, num_classes \in 1..2 :
          /\ vis_calls' = Append(vis_calls,
                 [drawn |-> figsize, rank |-> rank, raised |-> num_classes < 2])
          /\ figsize' = RankScaledFigsize(figsize, rank)
    /\ UNCHANGED <<vis_class, ctor_figsize, evalVars>>

(***************************************************************************)
(* Specifications                                                          *)
(***************************************************************************)
\* No plotter is in use
VisUnused ==
    /\ vis_class = "SingleComponentLinePlotter"
    /\ figsize = ConstructorFigsize(DefaultFigsize, 1)
    /\ ctor_figsize = figsize
    /\ vis_calls = <<>>

\* No evaluator is in use
EvalUnused ==
    /\ h5 = << << <<1>> >> >>
    /\ self_modes = None
    /\ return_permutation = FALSE
    /\ pc = "unused"
    /\ factor_matrices = <<>>
    /\ modes = UnboundModes
    /\ R = 0
    /\ it = 0
    /\ min_score = Inf
    /\ worst = <<>>
    /\ oracle_calls = <<>>
    /\ outcome = NoOutcome
    /\ prev_outcome = NoOutcome

Init == InitEval /\ VisUnused

Next ==
    \/ Evaluate_Enter
    \/ Evaluate_Iterate
    \/ Evaluate_Return
    \/ Call_Return

Spec == Init /\ [][Next]_vars

InitVisual == InitVis /\ EvalUnused

NextVis ==
    \/ SingleComponentLinePlotter_visualise
    \/ FactorScatterPlotter_visualise

SpecVis == InitVisual /\ [][NextVis]_vars

(***************************************************************************)
(* What the claims speak of                                                *)
(***************************************************************************)
\* Every factor matrix has as many columns as the first
UniformRank(fms) == \A i \in 1..Len(fms) : NumCols(fms[i]) = NumCols(fms[1])

\* The ordered pairs of distinct component indices in [0, n)
DistinctPairs(n) == {pr \in Range(n) \X Range(n) : pr[1] # pr[2]}

\* The factor-match score of components pr[1] and pr[2] on the modes in S
PairScore(fms, S, pr) ==
    FactorMatchScore(ColumnsOf(fms, S, pr[1]), ColumnsOf(fms, S, pr[2]))

AllModes(fms) == Range(Len(fms))

LexLess(a, b) == a[1] < b[1] \/ (a[1] = b[1] /\ a[2] < b[2])

SeqToSet(s) == {s[i] : i \in 1..Len(s)}

RECURSIVE Pow(_, _)
Pow(b, e) == IF e = 0 THEN 1 ELSE b * Pow(b, e - 1)

\* C1: with modes unspecified and a decomposition of rank R >= 2, the call
\* returns exactly the minimum factor-match score over all ordered pairs of
\* distinct components; with return_permutation it also returns a pair whose
\* score is that minimum, and without it the score only.
C1_WorstIsMinimum ==
    (pc = "done" /\ self_modes.none /\ UniformRank(h5) /\ NumCols(h5[1]) >= 2) =>
        LET pairs == DistinctPairs(NumCols(h5[1]))
        IN /\ outcome.kind = "return"
           /\ ~outcome.score.inf
           /\ \A pr \in pairs : outcome.score.v <= PairScore(h5, AllModes(h5), pr)
           /\ \E pr \in pairs : outcome.score.v = PairScore(h5, AllModes(h5), pr)
           /\ return_permutation =>
                 /\ outcome.pair \in pairs
                 /\ PairScore(h5, AllModes(h5), outcome.pair) = outcome.score.v
           /\ ~return_permutation => outcome.pair = <<>>

\* A call on rank 3 and two modes returned a pair that is not the first one
\* scored, and the scores of the pairs differ
C1_Witness ==
    /\ pc = "done" /\ self_modes.none /\ UniformRank(h5) /\ NumCols(h5[1]) = 3
    /\ Len(h5) = 2
    /\ return_permutation
    /\ outcome.kind = "return"
    /\ outcome.pair # <<0, 1>>
    /\ \E pr \in DistinctPairs(3) : PairScore(h5, AllModes(h5), pr) > outcome.score.v

\* C2: given a subset of valid mode indices, the call completes and scores
\* every pair on the columns of exactly the selected modes.
C2_SelectedModesUsed ==
    (/\ pc = "done" /\ ~self_modes.none
     /\ SeqToSet(self_modes.val) \subseteq AllModes(h5)
     /\ UniformRank(h5) /\ NumCols(h5[1]) >= 2) =>
        /\ outcome.kind = "return"
        /\ oracle_calls # <<>>
        /\ \A i \in 1..Len(oracle_calls) :
              LET c == oracle_calls[i]
              IN /\ c.factors_p1 = ColumnsOf(h5, SeqToSet(self_modes.val), c.p1)
                 /\ c.factors_p2 = ColumnsOf(h5, SeqToSet(self_modes.val), c.p2)

\* C3: when the factor matrices disagree in rank, the call raises
\* ShapeMismatchError before the oracle has scored any pair.
C3_ShapeMismatchRaised ==
    (/\ pc = "done" /\ self_modes.none /\ ~UniformRank(h5)
     /\ \A i \in 1..Len(h5) : NumCols(h5[i]) >= 2) =>
        /\ outcome = Raise("ShapeMismatchError")
        /\ oracle_calls = <<>>

\* C4: when the mode subset holds an index outside [0, num_modes), the call
\* raises InvalidModeIndexError and never returns a score.
C4_InvalidModeIndexRaised ==
    (/\ pc = "done" /\ ~self_modes.none
     /\ ~(SeqToSet(self_modes.val) \subseteq AllModes(h5))) =>
        outcome = Raise("InvalidModeIndexError")

\* C5: on a decomposition of rank 1 the call ends, for both values of
\* return_permutation, in InvalidInputError or in the sentinel result (the
\* sentinel score and no pair), never in another error.
C5_RankOneDefined ==
    (pc = "done" /\ UniformRank(h5) /\ NumCols(h5[1]) = 1) =>
        \/ outcome = Raise("InvalidInputError")
        \/ outcome = Return(Inf, <<>>)

\* C6: one call on a decomposition of rank R invokes the oracle exactly
\* R*(R-1) times, once for each ordered pair of distinct indices, and never
\* for a pair (p, p).
C6_EveryPairScoredOnce ==
    (pc = "done" /\ UniformRank(h5)) =>
        LET n == NumCols(h5[1])
        IN /\ Len(oracle_calls) = n * (n - 1)
           /\ {<<oracle_calls[i].p1, oracle_calls[i].p2>> :
                  i \in 1..Len(oracle_calls)} = DistinctPairs(n)
           /\ \A i \in 1..Len(oracle_calls) : oracle_calls[i].p1 # oracle_calls[i].p2

\* C7: with the mode subset given as all mode indices, in natural or in any
\* other order, the call returns the same minimum score: the minimum over
\* the pairs scored on all modes.
C7_ModeOrderIrrelevant ==
    (/\ pc = "done" /\ ~self_modes.none
     /\ Len(self_modes.val) = Len(h5)
     /\ SeqToSet(self_modes.val) = AllModes(h5)
     /\ UniformRank(h5) /\ NumCols(h5[1]) >= 2) =>
        /\ outcome.kind = "return"
        /\ ~outcome.score.inf
        /\ \A pr \in DistinctPairs(NumCols(h5[1])) :
              outcome.score.v <= PairScore(h5, AllModes(h5), pr)
        /\ \E pr \in DistinctPairs(NumCols(h5[1])) :
              outcome.score.v = PairScore(h5, AllModes(h5), pr)

\* C8: a repeated call on the same inputs ends as the call before it did;
\* and a returned pair is, among the pairs of minimum score, the first in
\* the order ascending p1, then ascending p2.
C8_DeterministicFirstMinimum ==
    /\ (pc = "done" /\ prev_outcome # NoOutcome) => outcome = prev_outcome
    /\ (pc = "done" /\ outcome.kind = "return" /\ outcome.pair # <<>>) =>
          \A pr \in DistinctPairs(NumCols(h5[1])) :
             /\ PairScore(h5, AllModes(h5), pr) >= outcome.score.v
             /\ PairScore(h5, AllModes(h5), pr) = outcome.score.v =>
                   (pr = outcome.pair \/ LexLess(outcome.pair, pr))

\* A second call returned the same pair as the first; the pair is not the
\* first one scored, and a later pair ties with it
C8_Witness ==
    /\ pc = "done"
    /\ prev_outcome # NoOutcome
    /\ outcome.kind = "return"
    /\ outcome.pair # <<>>
    /\ outcome.pair # <<0, 1>>
    /\ \E pr \in DistinctPairs(NumCols(h5[1])) :
          /\ LexLess(outcome.pair, pr)
          /\ pr # <<outcome.pair[2], outcome.pair[1]>>
          /\ PairScore(h5, AllModes(h5), pr) = outcome.score.v

\* C9: no step of a call changes the checkpoint, the factor matrices of the
\* loaded decomposition, self.modes or self.return_permutation, whether the
\* call returns or raises.
C9_NoSideEffects ==
    [][/\ h5' = h5
       /\ self_modes' = self_modes
       /\ return_permutation' = return_permutation
       /\ pc = "loop" => factor_matrices' = factor_matrices
       /\ pc' \in {"loop", "done"} => factor_matrices' = h5']_vars

\* A call scored pairs and then raised
C9_Witness ==
    /\ pc = "done"
    /\ outcome.kind = "raise"
    /\ oracle_calls # <<>>
    /\ factor_matrices = h5

\* C10: every call of _visualise draws its figure with the current figsize
\* and then multiplies the stored width by the rank, the height unchanged:
\* after k calls on rank r the stored width is the constructor's times r^k
\* and the k-th figure was drawn with the constructor's width times r^(k-1).
C10_FigsizeGrows ==
    \A r \in 1..MaxRank :
        (\A i \in 1..Len(vis_calls) : vis_calls[i].rank = r) =>
            /\ figsize = <<ctor_figsize[1] * Pow(r, Len(vis_calls)), ctor_figsize[2]>>
            /\ \A i \in 1..Len(vis_calls) :
                  vis_calls[i].drawn = <<ctor_figsize[1] * Pow(r, i - 1), ctor_figsize[2]>>

\* Three calls on rank 2: the third figure is four times as wide as the first
C10_Witness ==
    /\ Len(vis_calls) = 3
    /\ \A i \in 1..3 : vis_calls[i].rank = 2
    /\ vis_calls[3].drawn[1] = 4 * vis_calls[1].drawn[1]
    /\ figsize[1] = 8 * ctor_figsize[1]

====
